---- MODULE Spec2Model ----
(***************************************************************************)
(* A model of ropey's Rope (src/src/rope.rs): the rope facade over a       *)
(* balanced tree of text chunks, its four edit operations (insert, remove, *)
(* split_off, append), clone, and the Arc that owns the root.              *)
(*                                                                         *)
(* The facade is translated from rope.rs.  The tree module (Node,          *)
(* NodeChildren, MAX_BYTES), the builder and the string utilities are      *)
(* imported by rope.rs (lines 8-12) and are modelled from the design       *)
(* document: sections 3, 4.1-4.4 and 4.6.                                  *)
(*                                                                         *)
(* Text is a sequence of chars.  A char is one of                          *)
(*    "a"  a one-byte letter          "w"  a two-byte letter               *)
(*    "r"  CARRIAGE RETURN            "n"  LINE FEED                       *)
(* and the only grapheme cluster of more than one char is CR LF.           *)
(***************************************************************************)
EXTENDS Integers, Sequences, FiniteSets, TLC

\* ---------------------------------------------------------------- tree constants
MAX_BYTES == 2
MAX_CHILDREN == 4
MIN_CHILDREN == MAX_CHILDREN \div 2

\* The value of F at the value of e.  (TLC evaluates the definitions of a LET
\* and the arguments of an operator each time they are used: an intermediate
\* result that is used more than once is bound to a name with Bind.)
Bind(e, F(_)) == CHOOSE r \in {F(v) : v \in {e}} : TRUE

\* ---------------------------------------------------------------- str_utils
Chars == {"a", "w", "r", "n"}

\* The number of bytes of the UTF-8 encoding of a char.
CharBytes(ch) == IF ch = "w" THEN 2 ELSE 1

\* The bytes of the first k chars of t.
RECURSIVE BytesUpTo(_, _)
BytesUpTo(t, k) == IF k = 0 THEN 0 ELSE CharBytes(t[k]) + BytesUpTo(t, k - 1)

ByteLen(t) == BytesUpTo(t, Len(t))

\* Line breaks of a text: every LF, and every CR that no LF follows (CR LF is one
\* break, counted at the LF).
RECURSIVE BreaksUpTo(_, _)
BreaksUpTo(t, k) ==
    IF k = 0 THEN 0
    ELSE (IF t[k] = "n" THEN 1
          ELSE IF t[k] = "r" /\ (k = Len(t) \/ t[k + 1] # "n") THEN 1
          ELSE 0) + BreaksUpTo(t, k - 1)

LineBreaks(t) == BreaksUpTo(t, Len(t))

Take(t, k) == SubSeq(t, 1, k)
Drop(t, k) == SubSeq(t, k + 1, Len(t))

\* The byte offset of char index char_idx of text t.
char_idx_to_byte_idx(t, char_idx) ==
    BytesUpTo(t, IF char_idx > Len(t) THEN Len(t) ELSE char_idx)

\* The number of whole chars in the first byte_idx bytes of t.
RECURSIVE CharsWithin(_, _, _)
CharsWithin(t, byte_idx, k) ==
    IF k = 0 \/ BytesUpTo(t, k) <= byte_idx THEN k ELSE CharsWithin(t, byte_idx, k - 1)

byte_idx_to_char_idx(t, byte_idx) == CharsWithin(t, byte_idx, Len(t))

\* Whether the join of two texts is a grapheme boundary.
seam_is_grapheme_boundary(l, r) ==
    ~(l # <<>> /\ r # <<>> /\ l[Len(l)] = "r" /\ Head(r) = "n")

\* ---------------------------------------------------------------- TextInfo
ZeroInfo == [bytes |-> 0, chars |-> 0, line_breaks |-> 0]

InfoFromStr(t) ==
    [bytes |-> ByteLen(t), chars |-> Len(t), line_breaks |-> LineBreaks(t)]

InfoAdd(x, y) ==
    [bytes |-> x.bytes + y.bytes, chars |-> x.chars + y.chars,
     line_breaks |-> x.line_breaks + y.line_breaks]

\* ---------------------------------------------------------------- Node
\* A node is a leaf holding a text or an internal node holding a sequence of
\* (info, node) entries.  Both shapes carry both fields so that nodes compare.
Leaf(t) == [leaf |-> TRUE, text |-> t, children |-> <<>>]
Internal(cs) == [leaf |-> FALSE, text |-> <<>>, children |-> cs]

\* Node::new(): an empty leaf.
NodeNew == Leaf(<<>>)

RECURSIVE SumInfoUpTo(_, _)
SumInfoUpTo(cs, k) ==
    IF k = 0 THEN ZeroInfo ELSE InfoAdd(SumInfoUpTo(cs, k - 1), cs[k].info)

\* NodeChildren::combined_info()
SumInfo(cs) == SumInfoUpTo(cs, Len(cs))

\* Node::text_info(): a leaf's info is computed from its text, an internal node's
\* is the sum of the infos stored beside its children.
text_info(node) ==
    IF node.leaf THEN InfoFromStr(node.text) ELSE SumInfo(node.children)

\* The (info, node) pair that a parent stores for a child.
Entry(node) == Bind(node, LAMBDA n : [info |-> text_info(n), node |-> n])

is_leaf(node) == node.leaf
child_count(node) == Len(node.children)

\* Node::depth(): the number of internal nodes on the leftmost path.
RECURSIVE depth(_)
depth(node) ==
    IF node.leaf \/ node.children = <<>> THEN (IF node.leaf THEN 0 ELSE 1)
    ELSE 1 + depth(node.children[1].node)

\* The chunks of a tree in in-order traversal (the chunk iterator).
RECURSIVE Chunks(_)
RECURSIVE ChunksUpTo(_, _)
Chunks(node) ==
    IF node.leaf THEN <<node.text>> ELSE ChunksUpTo(node.children, Len(node.children))
ChunksUpTo(cs, k) ==
    IF k = 0 THEN <<>> ELSE ChunksUpTo(cs, k - 1) \o Chunks(cs[k].node)

RECURSIVE ConcatUpTo(_, _)
ConcatUpTo(ss, k) == IF k = 0 THEN <<>> ELSE ConcatUpTo(ss, k - 1) \o ss[k]

Concat(ss) == ConcatUpTo(ss, Len(ss))

\* The text of a tree: its chunks, concatenated.
TextOf(node) == Bind(Chunks(node), LAMBDA ss : Concat(ss))

\* NodeChildren::search_char_idx: the child that holds char index c, and the
\* chars and bytes before it.  An index on the border of two children belongs
\* to the right one; an index at or past the end belongs to the last child.
RECURSIVE SearchChar(_, _, _, _, _)
SearchChar(cs, c, i, chars, bytes) ==
    IF i = Len(cs) \/ c < chars + cs[i].info.chars
    THEN [idx |-> i, chars |-> chars, bytes |-> bytes]
    ELSE SearchChar(cs, c, i + 1, chars + cs[i].info.chars, bytes + cs[i].info.bytes)

search_char_idx(cs, c) == SearchChar(cs, c, 1, 0, 0)

\* NodeChildren::search_byte_idx: the same by byte offset.
RECURSIVE SearchByte(_, _, _, _)
SearchByte(cs, b, i, bytes) ==
    IF i = Len(cs) \/ b < bytes + cs[i].info.bytes
    THEN [idx |-> i, bytes |-> bytes]
    ELSE SearchByte(cs, b, i + 1, bytes + cs[i].info.bytes)

search_byte_idx(cs, b) == SearchByte(cs, b, 1, 0)

\* Replace entries i..j of a sequence by the sequence mid.
Splice(s, i, j, mid) == SubSeq(s, 1, i - 1) \o mid \o SubSeq(s, j + 1, Len(s))

\* Split an oversized list of entries at its midpoint: the nodes that replace it.
SplitAtMid(cs) ==
    <<Internal(SubSeq(cs, 1, (Len(cs) + 1) \div 2)),
      Internal(SubSeq(cs, (Len(cs) + 1) \div 2 + 1, Len(cs)))>>

\* The node or the two nodes that hold the entries cs.
Pack(entries) ==
    Bind(entries,
         LAMBDA cs : IF Len(cs) > MAX_CHILDREN THEN SplitAtMid(cs) ELSE <<Internal(cs)>>)

Entries(nodes) == [k \in 1..Len(nodes) |-> Entry(nodes[k])]

\* ---------------------------------------------------------------- RopeBuilder
\* The chars of the next leaf of t from char i on, trying k chars first: the
\* longest run that fits a leaf and ends on a grapheme boundary.
RECURSIVE ChunkLen(_, _, _)
ChunkLen(t, i, k) ==
    IF k <= 1 THEN 1
    ELSE IF BytesUpTo(t, i + k) - BytesUpTo(t, i) <= MAX_BYTES
            /\ ~(i + k < Len(t) /\ t[i + k] = "r" /\ t[i + k + 1] = "n")
         THEN k
         ELSE ChunkLen(t, i, k - 1)

\* The leaves of the chars of t after the first i.
RECURSIVE BuildLeaves(_, _)
BuildLeaves(t, i) ==
    IF i >= Len(t) THEN <<>>
    ELSE Bind(ChunkLen(t, i, IF Len(t) - i < MAX_BYTES THEN Len(t) - i ELSE MAX_BYTES),
              LAMBDA k : <<Leaf(SubSeq(t, i + 1, i + k))>> \o BuildLeaves(t, i + k))

\* One level of the bottom-up construction: full nodes, the last two evened
\* out so that none is undersized.
RECURSIVE BuildLevel(_)
BuildLevel(nodes) ==
    IF Len(nodes) <= MAX_CHILDREN THEN <<Internal(Entries(nodes))>>
    ELSE Bind(IF Len(nodes) - MAX_CHILDREN < MIN_CHILDREN
              THEN Len(nodes) - MIN_CHILDREN ELSE MAX_CHILDREN,
              LAMBDA k : Bind(Drop(nodes, k),
              LAMBDA rest : <<Internal(Entries(Take(nodes, k)))>> \o BuildLevel(rest)))

RECURSIVE BuildTree(_)
BuildTree(nodes) ==
    IF Len(nodes) = 1 THEN nodes[1]
    ELSE Bind(BuildLevel(nodes), LAMBDA up : BuildTree(up))

\* RopeBuilder::new(), append(text), finish(): the root of the tree of text.
BuilderFinish(t) ==
    IF t = <<>> THEN NodeNew ELSE Bind(BuildLeaves(t, 0), LAMBDA ls : BuildTree(ls))

\* ---------------------------------------------------------------- Node operations
\* Option::None of a byte position.
None == 0 - 1

\* Node::char_to_byte
RECURSIVE char_to_byte(_, _)
char_to_byte(node, c) ==
    IF node.leaf THEN char_idx_to_byte_idx(node.text, c)
    ELSE IF node.children = <<>> THEN 0
    ELSE Bind(search_char_idx(node.children, c),
              LAMBDA f : f.bytes + char_to_byte(node.children[f.idx].node, c - f.chars))

\* The largest char count of t whose bytes fit a leaf (a code point boundary;
\* it need not be a grapheme boundary).
RECURSIVE FitLen(_, _)
FitLen(t, k) == IF k = 0 \/ BytesUpTo(t, k) <= MAX_BYTES THEN k ELSE FitLen(t, k - 1)

\* Leaf insert: the text s spliced in at char c; a leaf that grew too long is
\* split at the last code point boundary that fits.
LeafInsert(node, c, s) ==
    Bind(Take(node.text, c) \o s \o Drop(node.text, c),
    LAMBDA new : Bind(IF c = 0 THEN 0
                      ELSE IF c = Len(node.text) THEN ByteLen(new)
                      ELSE None,
    LAMBDA seam : IF ByteLen(new) <= MAX_BYTES
                  THEN [node |-> Leaf(new), residual |-> <<>>, seam |-> seam]
                  ELSE Bind(FitLen(new, Len(new)),
                       LAMBDA k : [node |-> Leaf(Take(new, k)),
                                   residual |-> <<Leaf(Drop(new, k))>>,
                                   seam |-> seam])))

\* Node::insert(char_idx, text): the node, the residual node that did not fit
\* (a sequence of at most one node) and the byte position of the seam to repair.
RECURSIVE NodeInsert(_, _, _)
NodeInsert(node, c, s) ==
    IF node.leaf THEN LeafInsert(node, c, s)
    ELSE Bind(search_char_idx(node.children, c),
         LAMBDA f : Bind(NodeInsert(node.children[f.idx].node, c - f.chars, s),
         LAMBDA r : Bind(Pack(Splice(node.children, f.idx, f.idx,
                                     <<Entry(r.node)>> \o Entries(r.residual))),
         LAMBDA p : [node |-> p[1], residual |-> Tail(p),
                     seam |-> IF r.seam = None THEN None ELSE f.bytes + r.seam])))

\* Leaf remove: the chars start..end of the leaf cut out; the seam is the
\* byte position of the cut unless both ends are on the borders of the leaf.
LeafRemove(node, start, end) ==
    Bind(IF start > Len(node.text) THEN Len(node.text) ELSE start,
    LAMBDA s : Bind(IF end > Len(node.text) THEN Len(node.text) ELSE end,
    LAMBDA e : [node |-> Leaf(Take(node.text, s) \o Drop(node.text, IF e < s THEN s ELSE e)),
                need_zip |-> FALSE,
                seam |-> IF (s = 0 \/ s = Len(node.text)) /\ (e = 0 \/ e = Len(node.text))
                         THEN None
                         ELSE char_idx_to_byte_idx(node.text, s)]))

\* Node::remove(start, end): the node, whether a node may have been left
\* undersized, and the byte position of the cut (None when both ends of the
\* range are on leaf boundaries).
RECURSIVE NodeRemove(_, _, _)
RECURSIVE RemoveChildren(_, _, _, _, _)
\* The children of cs from the k-th on (the k-th at char offset lo) with
\* start..end removed: a child the range covers is dropped, a child it
\* reaches into is recursed into.
RemoveChildren(cs, k, lo, start, end) ==
    IF k > Len(cs) THEN [cs |-> <<>>, need_zip |-> FALSE, seam |-> FALSE]
    ELSE Bind(lo + cs[k].info.chars,
         LAMBDA hi : Bind(RemoveChildren(cs, k + 1, hi, start, end),
         LAMBDA rest :
             IF start < end /\ start <= lo /\ hi <= end
             THEN [cs |-> rest.cs, need_zip |-> TRUE, seam |-> rest.seam]
             ELSE IF start < hi /\ lo < end
             THEN Bind(NodeRemove(cs[k].node, IF start > lo THEN start - lo ELSE 0,
                                  (IF end < hi THEN end ELSE hi) - lo),
                  LAMBDA r : [cs |-> <<Entry(r.node)>> \o rest.cs,
                              need_zip |-> r.need_zip \/ rest.need_zip,
                              seam |-> (r.seam # None) \/ rest.seam])
             ELSE [cs |-> <<cs[k]>> \o rest.cs, need_zip |-> rest.need_zip,
                   seam |-> rest.seam]))

NodeRemove(node, start, end) ==
    IF node.leaf THEN LeafRemove(node, start, end)
    ELSE Bind(RemoveChildren(node.children, 1, 0, start, end),
         LAMBDA r : [node |-> Internal(r.cs), need_zip |-> r.need_zip,
                     seam |-> IF r.seam THEN char_to_byte(node, start) ELSE None])

\* Node::split(char_idx): the left and the right part of the node.
RECURSIVE NodeSplit(_, _)
NodeSplit(node, c) ==
    IF node.leaf
    THEN Bind(byte_idx_to_char_idx(node.text, char_idx_to_byte_idx(node.text, c)),
         LAMBDA k : [left |-> Leaf(Take(node.text, k)), right |-> Leaf(Drop(node.text, k))])
    ELSE Bind(search_char_idx(node.children, c),
         LAMBDA f :
             IF c - f.chars = 0
             THEN [left |-> Internal(SubSeq(node.children, 1, f.idx - 1)),
                   right |-> Internal(SubSeq(node.children, f.idx, Len(node.children)))]
             ELSE IF c - f.chars >= node.children[f.idx].info.chars
             THEN [left |-> node, right |-> Internal(<<>>)]
             ELSE Bind(NodeSplit(node.children[f.idx].node, c - f.chars),
                  LAMBDA r :
                      [left |-> Internal(SubSeq(node.children, 1, f.idx - 1)
                                         \o <<Entry(r.left)>>),
                       right |-> Internal(<<Entry(r.right)>>
                                          \o SubSeq(node.children, f.idx + 1,
                                                    Len(node.children)))]))

\* An internal node with fewer children than MIN_CHILDREN.
Undersized(node) == ~node.leaf /\ Len(node.children) < MIN_CHILDREN

\* Merge two adjacent internal siblings; when the merged node is oversized it
\* is split again evenly.  The entries that replace the two.
MergePair(a, b) == Entries(Pack(a.children \o b.children))

\* One level of zip-fix: the children cs, with an undersized child at index i
\* (on a border, at i - 1 or i) merged with an adjacent sibling.
ZipMerge(cs, i, border) ==
    IF border
    THEN IF Undersized(cs[i - 1].node) \/ Undersized(cs[i].node)
         THEN Splice(cs, i - 1, i, MergePair(cs[i - 1].node, cs[i].node))
         ELSE cs
    ELSE IF Undersized(cs[i].node) /\ Len(cs) > 1
         THEN IF i < Len(cs)
              THEN Splice(cs, i, i + 1, MergePair(cs[i].node, cs[i + 1].node))
              ELSE Splice(cs, i - 1, i, MergePair(cs[i - 1].node, cs[i].node))
         ELSE cs

\* One pass of zip-fix down the spine at char index c: at each level an
\* undersized child at c is merged with an adjacent sibling, then the pass
\* goes on in the child (on a border, the two children) at c.
RECURSIVE ZipPass(_, _)
ZipPass(node, c) ==
    IF node.leaf \/ node.children = <<>> THEN node
    ELSE Bind(search_char_idx(node.children, c),
         LAMBDA f : Bind(ZipMerge(node.children, f.idx, c = f.chars /\ f.idx > 1),
         LAMBDA cs1 : Bind(search_char_idx(cs1, c),
         LAMBDA g :
             IF c = g.chars /\ g.idx > 1
             THEN Internal(Splice(cs1, g.idx - 1, g.idx,
                      <<Entry(ZipPass(cs1[g.idx - 1].node, cs1[g.idx - 1].info.chars)),
                        Entry(ZipPass(cs1[g.idx].node, 0))>>))
             ELSE Internal(Splice(cs1, g.idx, g.idx,
                      <<Entry(ZipPass(cs1[g.idx].node, c - g.chars))>>)))))

\* Node::zip_fix(char_idx): passes are repeated while they change the tree.
RECURSIVE zip_fix(_, _)
zip_fix(node, c) ==
    Bind(ZipPass(node, c), LAMBDA next : IF next = node THEN node ELSE zip_fix(next, c))

\* Node::zip_fix_left(), Node::zip_fix_right(): the leftmost and rightmost spine.
zip_fix_left(node) == zip_fix(node, 0)
zip_fix_right(node) == zip_fix(node, text_info(node).chars)

\* Node::append_at_depth(other, d): graft other at the end of the rightmost
\* spine, d levels down; the node, and the residual that did not fit.
RECURSIVE append_at_depth(_, _, _)
append_at_depth(host, other, d) ==
    IF d = 0
    THEN IF host.leaf \/ other.leaf
         THEN [node |-> host, residual |-> <<other>>]
         ELSE Bind(Pack(host.children \o other.children),
                   LAMBDA p : [node |-> p[1], residual |-> Tail(p)])
    ELSE Bind(append_at_depth(host.children[Len(host.children)].node, other, d - 1),
         LAMBDA r : Bind(Pack(Splice(host.children, Len(host.children),
                                     Len(host.children),
                                     <<Entry(r.node)>> \o Entries(r.residual))),
         LAMBDA p : [node |-> p[1], residual |-> Tail(p)]))

\* Node::prepend_at_depth(other, d): graft other at the start of the leftmost
\* spine; the residual is the node to the left of the host.
RECURSIVE prepend_at_depth(_, _, _)
prepend_at_depth(host, other, d) ==
    IF d = 0
    THEN IF host.leaf \/ other.leaf
         THEN [node |-> host, residual |-> <<other>>]
         ELSE Bind(Pack(other.children \o host.children),
                   LAMBDA p : [node |-> p[Len(p)], residual |-> SubSeq(p, 1, Len(p) - 1)])
    ELSE Bind(prepend_at_depth(host.children[1].node, other, d - 1),
         LAMBDA r : Bind(Pack(Splice(host.children, 1, 1,
                                     Entries(r.residual) \o <<Entry(r.node)>>)),
         LAMBDA p : [node |-> p[Len(p)], residual |-> SubSeq(p, 1, Len(p) - 1)]))

\* ---------------------------------------------------------------- grapheme seams
NonEmpty(t) == IF t = <<>> THEN <<>> ELSE <<t>>
Front(t) == SubSeq(t, 1, Len(t) - 1)

\* The repair of the seam of two adjacent leaf texts l and r that CR LF
\* straddles: the texts that replace l and those that replace r.  The LF moves
\* left when l has room for it; else the CR moves right when that is allowed
\* and r has room; else the cluster gets a leaf of its own.
FixPair(l, r, allow_left_shift) ==
    IF ByteLen(l) + CharBytes(Head(r)) <= MAX_BYTES
    THEN [l |-> <<l \o <<Head(r)>>>>, r |-> NonEmpty(Tail(r))]
    ELSE IF allow_left_shift /\ ByteLen(r) + CharBytes(l[Len(l)]) <= MAX_BYTES
    THEN [l |-> NonEmpty(Front(l)), r |-> <<<<l[Len(l)]>> \o r>>]
    ELSE [l |-> NonEmpty(Front(l)) \o <<<<l[Len(l)], Head(r)>>>>,
          r |-> NonEmpty(Tail(r))]

\* The text of the first (or last) leaf of a subtree.
RECURSIVE EdgeLeaf(_, _)
EdgeLeaf(node, first) ==
    IF node.leaf THEN node.text
    ELSE EdgeLeaf(node.children[IF first THEN 1 ELSE Len(node.children)].node, first)

\* The nodes that replace a subtree when its first (or last) leaf is replaced
\* by leaves of the given texts: none when nothing is left of it, two when it
\* had to split.
RECURSIVE SpliceEdge(_, _, _)
SpliceEdge(node, first, texts) ==
    IF node.leaf THEN [k \in 1..Len(texts) |-> Leaf(texts[k])]
    ELSE Bind(IF first THEN 1 ELSE Len(node.children),
         LAMBDA k : Bind(SpliceEdge(node.children[k].node, first, texts),
         LAMBDA sub : IF Len(node.children) = 1 /\ sub = <<>> THEN <<>>
                      ELSE Pack(Splice(node.children, k, k, Entries(sub)))))

\* The nodes that replace a subtree when the seam at byte_pos in it is repaired.
RECURSIVE FixSeamRec(_, _, _)
FixSeamRec(node, byte_pos, allow_left_shift) ==
    IF node.leaf \/ byte_pos <= 0 \/ byte_pos >= text_info(node).bytes THEN <<node>>
    ELSE Bind(search_byte_idx(node.children, byte_pos),
         LAMBDA f :
             IF byte_pos # f.bytes
             THEN Pack(Splice(node.children, f.idx, f.idx,
                       Entries(FixSeamRec(node.children[f.idx].node,
                                          byte_pos - f.bytes, allow_left_shift))))
             ELSE Bind(EdgeLeaf(node.children[f.idx - 1].node, FALSE),
                  LAMBDA l : Bind(EdgeLeaf(node.children[f.idx].node, TRUE),
                  LAMBDA r :
                      IF seam_is_grapheme_boundary(l, r) THEN <<node>>
                      ELSE Bind(FixPair(l, r, allow_left_shift),
                           LAMBDA p : Pack(Splice(node.children, f.idx - 1, f.idx,
                               Entries(SpliceEdge(node.children[f.idx - 1].node, FALSE, p.l)
                                       \o SpliceEdge(node.children[f.idx].node, TRUE, p.r)))))
                  )))

\* Zip-fix of the spines on both sides of char index c.
ZipAround(node, c) ==
    Bind(zip_fix(node, IF c > 0 THEN c - 1 ELSE 0),
         LAMBDA left : zip_fix(left, IF c < text_info(left).chars THEN c + 1 ELSE c))

\* Node::fix_grapheme_seam(byte_pos, allow_left_shift), on the root: repair the
\* leaves, make a root of two when the root had to split, and zip-fix the
\* spines where a leaf was dropped.
fix_grapheme_seam(root, byte_pos, allow_left_shift) ==
    Bind(FixSeamRec(root, byte_pos, allow_left_shift),
    LAMBDA out : Bind(IF Len(out) = 1 THEN out[1] ELSE Internal(Entries(out)),
    LAMBDA fixed : IF fixed = root THEN root
                   ELSE Bind(TextOf(root),
                        LAMBDA t : ZipAround(fixed, byte_idx_to_char_idx(t, byte_pos)))))

\* ---------------------------------------------------------------- Arc<Node>
\* The ropes of the program are named by slots; "t1" and "t2" are the locals
\* of an operation.  A rope is a pointer to the cell that holds its root; 0 is
\* no rope.  A machine is the record [heap, rope]: heap maps the allocated
\* cells to root nodes.  The Arcs inside a tree are held by value: the tree
\* operations copy a shared child before they write to it.
UserSlots == {"r", "r2", "r3"}
Locals == {"t1", "t2"}
Slots == UserSlots \cup Locals
NCells == 8
Cells == 1..NCells

Root(m, s) == m.heap[m.rope[s]]

\* Arc::strong_count of the root of rope s.
strong_count(m, s) == Cardinality({x \in Slots : m.rope[x] = m.rope[s]})

\* The first cell that is not allocated.
FreeCell(m) ==
    CHOOSE x \in Cells : x \notin DOMAIN m.heap
                         /\ \A y \in Cells : y < x => y \in DOMAIN m.heap

\* Arc::new(node), stored in rope s.
ArcNew(mach, s, node) ==
    Bind(mach, LAMBDA m : Bind(FreeCell(m),
               LAMBDA c : [heap |-> (c :> node) @@ m.heap,
                           rope |-> [m.rope EXCEPT ![s] = c]]))

\* Dropping what no rope points to.
Collect(mach) ==
    Bind(mach, LAMBDA m : [heap |-> [c \in {m.rope[s] : s \in Slots} \ {0} |-> m.heap[c]],
                           rope |-> m.rope])

\* A write access that does not clone a root that is shared.
make_mut_NoClone(mach, s) == mach

\* Arc::make_mut(&mut self.root): a root that is shared is cloned first.
make_mut(mach, s) ==
    Bind(mach, LAMBDA m : IF strong_count(m, s) > 1 THEN ArcNew(m, s, Root(m, s)) ELSE m)

\* A write through the reference that make_mut returned.
SetRoot(mach, s, node) == Bind(mach, LAMBDA m : [m EXCEPT !.heap[m.rope[s]] = node])

\* Moving rope src into dst (dst's old root is dropped).
Move(mach, dst, src) ==
    Bind(mach, LAMBDA m :
        Collect([m EXCEPT !.rope = [m.rope EXCEPT ![dst] = m.rope[src], ![src] = 0]]))

\* ---------------------------------------------------------------- Rope
\* Rope::new()
RopeNew(m, s) == ArcNew(m, s, NodeNew)

\* Rope::from_str(text)
from_str(m, s, text) == ArcNew(m, s, BuilderFinish(text))

len_bytes(m, s) == text_info(Root(m, s)).bytes
len_chars(m, s) == text_info(Root(m, s)).chars
len_lines(m, s) == text_info(Root(m, s)).line_breaks + 1

\* Rope::to_string()
to_string(m, s) == TextOf(Root(m, s))

\* The node that is left when the chain of single-child internal nodes at the
\* top of a tree is removed.
RECURSIVE PullUp(_)
PullUp(node) ==
    IF ~is_leaf(node) /\ child_count(node) = 1 THEN PullUp(node.children[1].node)
    ELSE node

\* Rope::pull_up_singular_nodes(): self.root becomes the Arc of the child.
pull_up_singular_nodes(mach, s) ==
    Bind(mach, LAMBDA m : Bind(PullUp(Root(m, s)),
               LAMBDA n : IF n = Root(m, s) THEN m ELSE Collect(ArcNew(m, s, n))))

\* Handle root splitting, if any: the new root of a node and its residual.
RootSplit(res) ==
    IF res.residual # <<>>
    THEN Internal(<<Entry(res.node), Entry(res.residual[1])>>)
    ELSE res.node

\* Rope::insert, text.len() <= MAX_BYTES.
InsertSmall(mach, s, char_idx, text) ==
    Bind(make_mut(mach, s),
    LAMBDA m : Bind(NodeInsert(Root(m, s), char_idx, text),
    LAMBDA res : Bind(RootSplit(res),
    LAMBDA root : Collect(SetRoot(m, s, IF res.seam # None
                                        THEN fix_grapheme_seam(root, res.seam, TRUE)
                                        ELSE root)))))

\* Remove that takes end for the last char of the range.
RopeRemove_EndInclusive(mach, s, start, end) ==
    Bind(make_mut(mach, s),
    LAMBDA m : Bind(NodeRemove(Root(m, s), start, end + 1),
    LAMBDA res : Bind(IF res.need_zip THEN zip_fix(res.node, start) ELSE res.node,
    LAMBDA zipped :
        pull_up_singular_nodes(
            Collect(SetRoot(m, s, IF res.seam # None
                                  THEN fix_grapheme_seam(zipped, res.seam, FALSE)
                                  ELSE zipped)), s))))

\* Rope::remove(start, end).
RopeRemove(mach, s, start, end) ==
    Bind(make_mut(mach, s),
    LAMBDA m : Bind(NodeRemove(Root(m, s), start, end),
    LAMBDA res : Bind(IF res.need_zip THEN zip_fix(res.node, start) ELSE res.node,
    LAMBDA zipped :
        pull_up_singular_nodes(
            Collect(SetRoot(m, s, IF res.seam # None
                                  THEN fix_grapheme_seam(zipped, res.seam, FALSE)
                                  ELSE zipped)), s))))

\* The general case of split_off that returns the left part and keeps the right.
SplitGeneral_Swapped(mach, s, char_idx, out) ==
    Bind(make_mut(mach, s),
    LAMBDA m : Bind(NodeSplit(Root(m, s), char_idx),
    LAMBDA sp : Bind(ArcNew(SetRoot(m, s, zip_fix_left(sp.right)), out,
                            zip_fix_right(sp.left)),
    LAMBDA m2 : pull_up_singular_nodes(pull_up_singular_nodes(m2, s), out))))

\* Rope::split_off(char_idx), the general case: the right part is rope out.
SplitGeneral(mach, s, char_idx, out) ==
    Bind(make_mut(mach, s),
    LAMBDA m : Bind(NodeSplit(Root(m, s), char_idx),
    LAMBDA sp : Bind(ArcNew(SetRoot(m, s, zip_fix_right(sp.left)), out,
                            zip_fix_left(sp.right)),
    LAMBDA m2 : pull_up_singular_nodes(pull_up_singular_nodes(m2, s), out))))

\* split_off whose special case at 0 forgets the swap.
RopeSplitOff_NoSwap(mach, s, char_idx, out) ==
    Bind(mach, LAMBDA m :
        IF char_idx = 0 \/ char_idx = len_chars(m, s)
        THEN RopeNew(m, out)
        ELSE SplitGeneral(m, s, char_idx, out))

\* Rope::split_off(char_idx): the right part is rope out.
RopeSplitOff(mach, s, char_idx, out) ==
    Bind(mach, LAMBDA m :
        IF char_idx = 0
        THEN RopeNew([m EXCEPT !.rope = [m.rope EXCEPT ![out] = m.rope[s], ![s] = 0]], s)
        ELSE IF char_idx = len_chars(m, s)
        THEN RopeNew(m, out)
        ELSE SplitGeneral(m, s, char_idx, out))

\* Rope::append, l_depth > r_depth: other is grafted onto self.
GraftRight(mach, s, other, d) ==
    Bind(make_mut(mach, s),
    LAMBDA m : Bind(append_at_depth(Root(m, s), Root(m, other), d),
    LAMBDA extra :
        Collect([(IF extra.residual # <<>>
                  THEN ArcNew(m, s, Internal(<<Entry(extra.node),
                                               Entry(extra.residual[1])>>))
                  ELSE SetRoot(m, s, extra.node)) EXCEPT !.rope[other] = 0])))

\* The graft of self onto other with the children of a new root in the wrong
\* order.
GraftLeft_RootOrder(mach, s, other, d) ==
    Bind(make_mut(mach, other),
    LAMBDA m : Bind(prepend_at_depth(Root(m, other), Root(m, s), d),
    LAMBDA extra :
        Move(IF extra.residual # <<>>
             THEN ArcNew(m, other, Internal(<<Entry(extra.node),
                                              Entry(extra.residual[1])>>))
             ELSE SetRoot(m, other, extra.node), s, other)))

\* Rope::append, l_depth <= r_depth: self is grafted onto other, which then
\* becomes self.
GraftLeft(mach, s, other, d) ==
    Bind(make_mut(mach, other),
    LAMBDA m : Bind(prepend_at_depth(Root(m, other), Root(m, s), d),
    LAMBDA extra :
        Move(IF extra.residual # <<>>
             THEN ArcNew(m, other, Internal(<<Entry(extra.residual[1]),
                                              Entry(extra.node)>>))
             ELSE SetRoot(m, other, extra.node), s, other)))

\* Rope::append(other): other is consumed.
RopeAppend(mach, s, other) ==
    Bind(mach, LAMBDA m :
        IF len_chars(m, s) = 0
        THEN Move(m, s, other)
        ELSE IF len_chars(m, other) > 0
        THEN Bind(make_mut(IF depth(Root(m, s)) > depth(Root(m, other))
                           THEN GraftRight(m, s, other,
                                           depth(Root(m, s)) - depth(Root(m, other)))
                           ELSE GraftLeft(m, s, other,
                                          depth(Root(m, other)) - depth(Root(m, s))), s),
             LAMBDA j : Collect(SetRoot(j, s,
                            fix_grapheme_seam(Root(j, s), text_info(Root(m, s)).bytes, TRUE))))
        ELSE Collect([m EXCEPT !.rope[other] = 0]))

\* Rope::insert, a single small leaf as host: the host's prefix and suffix are
\* inserted around a fresh rope of the text.
InsertAroundLeaf(mach, s, char_idx, text) ==
    Bind(mach,
    LAMBDA m : Bind(Root(m, s).text,
    LAMBDA orig_text : Bind(byte_idx_to_char_idx(orig_text,
                                char_idx_to_byte_idx(orig_text, char_idx)),
    LAMBDA k : Bind(InsertSmall(from_str(m, "t1", text), "t1", 0, Take(orig_text, k)),
    LAMBDA n1 : Move(InsertSmall(n1, "t1", len_chars(n1, "t1"), Drop(orig_text, k)),
                     s, "t1")))))

\* The large insert with the two appends in the wrong order.
InsertLarge_RightFirst(mach, s, char_idx, text) ==
    RopeAppend(RopeAppend(RopeSplitOff(from_str(mach, "t1", text), s, char_idx, "t2"),
                          s, "t2"), s, "t1")

\* Rope::insert, the large insert: split, then append the text and the right part.
InsertLarge(mach, s, char_idx, text) ==
    RopeAppend(RopeAppend(RopeSplitOff(from_str(mach, "t1", text), s, char_idx, "t2"),
                          s, "t1"), s, "t2")

\* Rope::insert(char_idx, text), for char_idx <= len_chars.
RopeInsert(mach, s, char_idx, text) ==
    Bind(mach, LAMBDA m :
        IF ByteLen(text) <= MAX_BYTES
        THEN InsertSmall(m, s, char_idx, text)
        ELSE IF is_leaf(Root(m, s)) /\ text_info(Root(m, s)).bytes <= MAX_BYTES
        THEN InsertAroundLeaf(m, s, char_idx, text)
        ELSE InsertLarge(m, s, char_idx, text))

\* #[derive(Clone)]: the clone shares the root.
RopeClone(m, s, out) == [m EXCEPT !.rope[out] = m.rope[s]]

\* ---------------------------------------------------------------- bounds
\* The number of operations of a run, and the longest text a rope may grow to.
MaxOps == 2
MaxLen == 14

\* The texts ropes are built from: empty, one leaf, a root of leaves, and a
\* tree of two levels.
InitTexts ==
    { <<>>,
      <<"a", "r">>,
      <<"r", "n", "a", "w", "n">>,
      <<"a", "r", "n", "w", "a", "r", "a", "n", "a", "w", "r", "n", "a">> }

\* The texts that are inserted: up to MAX_BYTES bytes, and more.
InsTexts ==
    { <<"a">>, <<"r">>, <<"n">>, <<"w">>, <<"r", "n">>,
      <<"n", "a", "r">>, <<"a", "w", "r", "n", "a">> }

\* ---------------------------------------------------------------- state
VARIABLES
    heap,   \* the allocated root cells
    rope,   \* the root cell of each rope, 0 when the rope does not exist
    last,   \* the last operation, its arguments, and the ropes before it
    prev,   \* the operation before the last
    ops,    \* the number of operations so far
    pc,     \* "run", or "panic" once an operation has panicked
    rd      \* the call of from_reader in progress, and its reader

vars == <<heap, rope, last, prev, ops, pc, rd>>

M == [heap |-> heap, rope |-> rope]

Live(m) == {s \in UserSlots : m.rope[s] # 0}

SlotOrder == <<"r", "r2", "r3">>

\* The index of the first slot that holds the same cell as the k-th slot.
FirstSlot(m, k) ==
    CHOOSE j \in 1..k : /\ m.rope[SlotOrder[j]] = m.rope[SlotOrder[k]]
                        /\ \A i \in 1..(j - 1) : m.rope[SlotOrder[i]] # m.rope[SlotOrder[k]]

\* The name of the cell of the k-th slot when cells are numbered in the order
\* of the slots.
CellId(m, k) ==
    IF m.rope[SlotOrder[k]] = 0 THEN 0
    ELSE Cardinality({m.rope[SlotOrder[j]] : j \in 1..FirstSlot(m, k)} \ {0})

\* Cell names carry no meaning: cells are renumbered in the order of the ropes.
Canon(mach) ==
    Bind(mach,
    LAMBDA m : Bind([k \in 1..3 |-> CellId(m, k)],
    LAMBDA id : [heap |-> [c \in {id[k] : k \in 1..3} \ {0} |->
                              m.heap[m.rope[SlotOrder[CHOOSE k \in 1..3 : id[k] = c]]]],
                 rope |-> [s \in Slots |->
                              IF s \in UserSlots
                              THEN id[CHOOSE k \in 1..3 : SlotOrder[k] = s] ELSE 0]]))

\* The trees of the ropes (an empty leaf stands for a rope that does not exist).
Trees(m) == [s \in UserSlots |-> IF m.rope[s] = 0 THEN NodeNew ELSE Root(m, s)]

NoArgs == [s |-> "r", c |-> 0, e |-> 0, text |-> <<>>, out |-> "r"]

Record(op, args) ==
    [op |-> op, s |-> args.s, c |-> args.c, e |-> args.e, text |-> args.text,
     out |-> args.out, live |-> Live(M), pre |-> Trees(M),
     ptr |-> [x \in UserSlots |-> rope[x]]]

NoOp == [op |-> "init", s |-> "r", c |-> 0, e |-> 0, text |-> <<>>, out |-> "r",
         live |-> {}, pre |-> [s \in UserSlots |-> NodeNew],
         ptr |-> [x \in UserSlots |-> 0]]

\* The state after an operation that returned machine m.
Done(m, op, args) ==
    /\ \E c \in {Canon(m)} : heap' = c.heap /\ rope' = c.rope
    /\ last' = Record(op, args)
    /\ prev' = last
    /\ ops' = ops + 1
    /\ pc' = "run"
    /\ rd' = rd

\* The first slot that holds no rope.
FreeSlot ==
    SlotOrder[CHOOSE k \in 1..3 : /\ SlotOrder[k] \notin Live(M)
                                  /\ \A j \in 1..(k - 1) : SlotOrder[j] \in Live(M)]

EmptyMachine == [heap |-> <<>>, rope |-> [s \in Slots |-> 0]]

\* No call of from_reader is in progress.
NoReader == [state |-> "idle"]

Init ==
    /\ \E t \in InitTexts :
           \E c \in {Canon(from_str(EmptyMachine, "r", t))} :
               heap = c.heap /\ rope = c.rope
    /\ last = NoOp
    /\ prev = NoOp
    /\ ops = 0
    /\ pc = "run"
    /\ rd = NoReader

\* The texts of a rope that has a clone, and of a third rope beside the two.
CloneTexts == { <<"a", "r">>, <<"r", "n", "a", "w", "n">> }
OtherTexts == { <<"n", "a">>, <<"a", "w", "r", "n", "a">> }

\* A rope r, its clone r2 and another rope r3:
\*     let r = Rope::from_str(t); let r2 = r.clone(); let r3 = Rope::from_str(u);
InitClone ==
    /\ \E t \in CloneTexts, u \in OtherTexts :
           \E c \in {Canon(from_str(RopeClone(from_str(EmptyMachine, "r", t), "r", "r2"),
                                    "r3", u))} :
               heap = c.heap /\ rope = c.rope
    /\ last = NoOp
    /\ prev = NoOp
    /\ ops = 0
    /\ pc = "run"
    /\ rd = NoReader

Running == pc = "run" /\ ops < MaxOps

\* Node::insert cannot descend into an internal node that has no child.
InsertPanics(m, s, text) ==
    ByteLen(text) <= MAX_BYTES /\ ~is_leaf(Root(m, s)) /\ child_count(Root(m, s)) = 0

\* r.insert(char_idx, text)
Insert(s, char_idx, text) ==
    /\ Running
    /\ s \in Live(M)
    /\ char_idx <= len_chars(M, s)
    /\ len_chars(M, s) + Len(text) <= MaxLen
    /\ ~InsertPanics(M, s, text)
    /\ Done(RopeInsert(M, s, char_idx, text), "insert",
            [NoArgs EXCEPT !.s = s, !.c = char_idx, !.text = text])

InsertPanic(s, text) ==
    /\ Running
    /\ s \in Live(M)
    /\ InsertPanics(M, s, text)
    /\ pc' = "panic"
    /\ last' = Record("insert", [NoArgs EXCEPT !.s = s, !.text = text])
    /\ prev' = last
    /\ UNCHANGED <<heap, rope, ops, rd>>

\* r.remove(start, end)
Remove(s, start, end) ==
    /\ Running
    /\ s \in Live(M)
    /\ start <= end /\ end <= len_chars(M, s)
    /\ Done(RopeRemove(M, s, start, end), "remove",
            [NoArgs EXCEPT !.s = s, !.c = start, !.e = end])

\* let out = r.split_off(char_idx)
SplitOff(s, char_idx) ==
    /\ Running
    /\ s \in Live(M)
    /\ Live(M) # UserSlots
    /\ char_idx <= len_chars(M, s)
    /\ Done(RopeSplitOff(M, s, char_idx, FreeSlot), "split_off",
            [NoArgs EXCEPT !.s = s, !.c = char_idx, !.out = FreeSlot])

\* r.append(other)
AppendRope(s, other) ==
    /\ Running
    /\ s \in Live(M) /\ other \in Live(M) /\ s # other
    /\ len_chars(M, s) + len_chars(M, other) <= MaxLen
    /\ Done(RopeAppend(M, s, other), "append",
            [NoArgs EXCEPT !.s = s, !.out = other])

\* let out = r.clone()
Clone(s) ==
    /\ Running
    /\ s \in Live(M)
    /\ Live(M) # UserSlots
    /\ Done(RopeClone(M, s, FreeSlot), "clone",
            [NoArgs EXCEPT !.s = s, !.out = FreeSlot])

\* let out = Rope::from_str(text)
FromStr(text) ==
    /\ Running
    /\ Live(M) # UserSlots
    /\ Done(from_str(M, FreeSlot, text), "from_str",
            [NoArgs EXCEPT !.text = text, !.out = FreeSlot])

Next ==
    \/ \E s \in UserSlots, c \in 0..MaxLen, t \in InsTexts : Insert(s, c, t)
    \/ \E s \in UserSlots, t \in InsTexts : InsertPanic(s, t)
    \/ \E s \in UserSlots, a \in 0..MaxLen, b \in 0..MaxLen : Remove(s, a, b)
    \/ \E s \in UserSlots, c \in 0..MaxLen : SplitOff(s, c)
    \/ \E s \in UserSlots, o \in UserSlots : AppendRope(s, o)
    \/ \E s \in UserSlots : Clone(s)
    \/ \E t \in InitTexts : FromStr(t)

Spec == Init /\ [][Next]_vars

\* The same operations, from a rope that has a clone.
SpecClone == InitClone /\ [][Next]_vars

\* ---------------------------------------------------------------- properties
\* The text of rope s before the last operation, and now.
TextBefore(s) == TextOf(last.pre[s])
TextNow(s) == to_string(M, s)

\* The last operation was op and it returned.
Returned(op) == pc = "run" /\ last.op = op

\* C1: after insert(c, s) on a rope of text t the text is t[0..c) ++ s ++ t[c..)
\* and len_chars has grown by the number of chars of s, in each of the three
\* insertion strategies.
C1_InsertSplices ==
    Returned("insert") =>
        /\ TextNow(last.s) = Take(TextBefore(last.s), last.c) \o last.text
                             \o Drop(TextBefore(last.s), last.c)
        /\ len_chars(M, last.s) = Len(TextBefore(last.s)) + Len(last.text)

\* A large text was inserted inside a rope whose root is not a leaf (the third
\* strategy: split_off, append, append).
C1_Witness ==
    /\ Returned("insert")
    /\ ByteLen(last.text) > MAX_BYTES
    /\ ~is_leaf(last.pre[last.s])
    /\ 0 < last.c /\ last.c < Len(TextBefore(last.s))
    /\ TextNow(last.s) = Take(TextBefore(last.s), last.c) \o last.text
                         \o Drop(TextBefore(last.s), last.c)

\* C2: after remove(a, b) on a rope of text t, a <= b <= len_chars, the text is
\* t[0..a) ++ t[b..).
C2_RemoveExcises ==
    Returned("remove") =>
        TextNow(last.s) = Take(TextBefore(last.s), last.c) \o Drop(TextBefore(last.s), last.e)

\* A range that covers a whole leaf and parts of its neighbours was removed
\* from the result of an earlier remove.
C2_Witness ==
    /\ Returned("remove") /\ prev.op = "remove" /\ prev.s = last.s
    /\ depth(last.pre[last.s]) >= 1
    /\ last.e - last.c >= 4
    /\ TextNow(last.s) = Take(TextBefore(last.s), last.c) \o Drop(TextBefore(last.s), last.e)

\* C3: after out = split_off(c) on a rope of text t, self holds t[0..c) and out
\* holds t[c..); at c = 0 self is empty and out is the original, at
\* c = len_chars self is the original and out is empty.
C3_SplitOffParts ==
    Returned("split_off") =>
        /\ TextNow(last.s) = Take(TextBefore(last.s), last.c)
        /\ TextNow(last.out) = Drop(TextBefore(last.s), last.c)
        /\ last.c = 0
               => len_chars(M, last.s) = 0 /\ TextNow(last.out) = TextBefore(last.s)
        /\ last.c = Len(TextBefore(last.s))
               => TextNow(last.s) = TextBefore(last.s) /\ len_chars(M, last.out) = 0

\* A rope of two levels was split inside.
C3_Witness ==
    /\ Returned("split_off")
    /\ depth(last.pre[last.s]) = 2
    /\ 0 < last.c /\ last.c < Len(TextBefore(last.s))
    /\ TextNow(last.s) \o TextNow(last.out) = TextBefore(last.s)

\* C4: after a.append(b) the text of a is the text of a followed by the text of
\* b, whichever tree is the deeper and also when a new root is made.
C4_AppendConcatenates ==
    Returned("append") =>
        TextNow(last.s) = TextBefore(last.s) \o TextBefore(last.out)

\* Two ropes that are not empty were appended and the result got a new root.
C4_Witness ==
    /\ Returned("append")
    /\ TextBefore(last.s) # <<>> /\ TextBefore(last.out) # <<>>
    /\ depth(Root(M, last.s)) > depth(last.pre[last.s])
    /\ depth(Root(M, last.s)) > depth(last.pre[last.out])
    /\ TextNow(last.s) = TextBefore(last.s) \o TextBefore(last.out)

\* The depths at which a tree has its leaves.
RECURSIVE LeafDepths(_)
LeafDepths(node) ==
    IF node.leaf THEN {0}
    ELSE UNION {{d + 1 : d \in LeafDepths(node.children[k].node)} :
                    k \in 1..Len(node.children)}

\* assert_balance: all leaves are at the same depth.
Balanced(node) == Cardinality(LeafDepths(node)) <= 1

\* assert_node_size: below the root every internal node has MIN_CHILDREN to
\* MAX_CHILDREN children; every leaf holds 1 to MAX_BYTES bytes, but for the
\* empty leaf that is the root of an empty rope.
RECURSIVE NodeSized(_, _)
NodeSized(node, is_root) ==
    IF node.leaf
    THEN /\ ByteLen(node.text) <= MAX_BYTES
         /\ is_root \/ ByteLen(node.text) >= 1
    ELSE /\ is_root \/ (MIN_CHILDREN <= Len(node.children)
                        /\ Len(node.children) <= MAX_CHILDREN)
         /\ \A k \in 1..Len(node.children) : NodeSized(node.children[k].node, FALSE)

\* C5: after every sequence of insert, remove, append and split_off the tree
\* of every rope is balanced and correctly sized: all leaves at the same depth,
\* every internal node below the root with MIN_CHILDREN to MAX_CHILDREN
\* children, every leaf with 1 to MAX_BYTES bytes unless the rope is empty.
C5_BalancedAndSized ==
    pc = "run" => \A s \in Live(M) : Balanced(Root(M, s)) /\ NodeSized(Root(M, s), TRUE)

\* The operations that edit a rope.
EditOps == {"insert", "remove", "split_off", "append"}

\* C6: after insert, remove, split_off and append have returned, the root of no
\* rope is an internal node with exactly one child.
C6_RootNotSingular ==
    (pc = "run" /\ last.op \in EditOps) =>
        \A s \in Live(M) : ~(~is_leaf(Root(M, s)) /\ child_count(Root(M, s)) = 1)

\* The chunks of a tree that are not empty.
NonEmptyChunks(node) == SelectSeq(Chunks(node), LAMBDA t : t # <<>>)

\* assert_grapheme_seams: the seam of every two adjacent chunks that are not
\* empty is a grapheme boundary.
SeamsOk(node) ==
    \A i \in 1..(Len(NonEmptyChunks(node)) - 1) :
        seam_is_grapheme_boundary(NonEmptyChunks(node)[i], NonEmptyChunks(node)[i + 1])

\* C7: after every sequence of insert, remove, append and split_off no
\* grapheme cluster (no CR LF) straddles the seam of two adjacent non-empty
\* chunks of a rope.
C7_GraphemeSeams ==
    pc = "run" => \A s \in Live(M) : SeamsOk(Root(M, s))

\* assert_integrity: every stored info is the info of the text of its child.
RECURSIVE InfoOk(_)
InfoOk(node) ==
    \A k \in 1..Len(node.children) :
        /\ node.children[k].info = InfoFromStr(TextOf(node.children[k].node))
        /\ InfoOk(node.children[k].node)

\* C8: after every sequence of insert, remove, append and split_off every stored
\* (TextInfo, child) entry equals the info recomputed from the child's text, and
\* len_bytes, len_chars and len_lines - 1 are the bytes, chars and line breaks
\* of the full text of the rope.
C8_StoredInfoExact ==
    pc = "run" =>
        \A s \in Live(M) :
            /\ InfoOk(Root(M, s))
            /\ len_bytes(M, s) = ByteLen(TextNow(s))
            /\ len_chars(M, s) = Len(TextNow(s))
            /\ len_lines(M, s) - 1 = LineBreaks(TextNow(s))

\* The ropes that the last operation was called on.
Touched == {last.s} \cup (IF last.op = "append" THEN {last.out} ELSE {})

\* C9: an insert, remove, split_off or append on a rope changes neither the
\* tree nor the text of any other rope: not of a clone of the rope, and not of
\* a clone of the rope that append consumed.
C9_CloneIsolation ==
    (pc = "run" /\ last.op \in EditOps) =>
        \A x \in last.live \ Touched :
            /\ x \in Live(M)
            /\ Root(M, x) = last.pre[x]
            /\ TextNow(x) = TextBefore(x)

\* A rope that had a clone was consumed by append, the combined rope was then
\* edited, and the clone is what it was.
C9_Witness ==
    /\ Returned("insert") /\ prev.op = "append" /\ last.s = prev.s
    /\ TextNow(last.s) # TextBefore(last.s)
    /\ \E x \in Live(M) \ {last.s} :
           /\ x # prev.out /\ prev.ptr[x] = prev.ptr[prev.out]
           /\ TextOf(prev.pre[prev.out]) # <<>> /\ TextOf(prev.pre[prev.s]) # <<>>
           /\ Root(M, x) = prev.pre[x]

\* C10: r2 = r.split_off(c) followed by r.append(r2) gives r the text it had,
\* whichever part has the deeper tree.
C10_SplitAppendIdentity ==
    (/\ Returned("append") /\ prev.op = "split_off"
     /\ prev.s = last.s /\ prev.out = last.out) =>
        TextNow(last.s) = TextOf(prev.pre[prev.s])

\* A rope was split inside into parts of different depth that were appended
\* again.
C10_Witness ==
    /\ Returned("append") /\ prev.op = "split_off"
    /\ prev.s = last.s /\ prev.out = last.out
    /\ 0 < prev.c /\ prev.c < Len(TextOf(prev.pre[prev.s]))
    /\ depth(last.pre[last.s]) # depth(last.pre[last.out])
    /\ TextNow(last.s) = TextOf(prev.pre[prev.s])


\* ---------------------------------------------------------------- from_reader
\* const BUFFER_SIZE: usize = MAX_BYTES * 2;
BUFFER_SIZE == MAX_BYTES * 2

\* The bytes of a stream: the one-byte chars, the lead byte "L" and the
\* continuation byte "K" of the two-byte char "w", and "X", a byte that occurs
\* in no UTF-8 text.
StreamBytes == {"a", "n", "L", "K", "X"}

\* let mut buffer = [0u8; BUFFER_SIZE];
ZeroBuffer == [i \in 1..BUFFER_SIZE |-> "z"]

\* std::str::from_utf8(bytes): the length of the longest prefix of bytes, from
\* byte i on, that is whole code points (Utf8Error::valid_up_to, or the length
\* of bytes when all of it is valid).
RECURSIVE valid_up_to(_, _)
valid_up_to(bytes, i) ==
    IF i >= Len(bytes) THEN i
    ELSE IF bytes[i + 1] \in {"a", "r", "n", "z"} THEN valid_up_to(bytes, i + 1)
    ELSE IF bytes[i + 1] = "L" /\ i + 1 < Len(bytes) /\ bytes[i + 2] = "K"
         THEN valid_up_to(bytes, i + 2)
         ELSE i

\* The bytes are valid UTF-8.
from_utf8_Ok(bytes) == valid_up_to(bytes, 0) = Len(bytes)

\* std::str::from_utf8_unchecked(bytes): the chars of valid bytes from byte i on.
RECURSIVE from_utf8_unchecked(_, _)
from_utf8_unchecked(bytes, i) ==
    IF i >= Len(bytes) THEN <<>>
    ELSE IF bytes[i + 1] = "L" THEN <<"w">> \o from_utf8_unchecked(bytes, i + 2)
    ELSE <<bytes[i + 1]>> \o from_utf8_unchecked(bytes, i + 1)

\* reader.read(&mut buffer[fill_idx..]) has written data at fill_idx.
ReadInto(buffer, fill_idx, data) ==
    [i \in 1..BUFFER_SIZE |->
        IF fill_idx < i /\ i <= fill_idx + Len(data) THEN data[i - fill_idx] ELSE buffer[i]]

\* Determine how much of the buffer is valid utf8.
valid_count(buffer, fill_idx) == valid_up_to(SubSeq(buffer, 1, fill_idx), 0)

\* Shift the un-read part of the buffer to the beginning (ptr::copy).
ShiftBuffer_NoCopy(buffer, valid, fill_idx) == buffer
ShiftBuffer(buffer, valid, fill_idx) ==
    IF valid < fill_idx
    THEN [i \in 1..BUFFER_SIZE |->
             IF i <= fill_idx - valid THEN buffer[i + valid] ELSE buffer[i]]
    ELSE buffer

\* if fill_idx == BUFFER_SIZE: the buffer is full and none of it could be consumed.
BufferFull_Never(fill_idx) == FALSE
BufferFull(fill_idx) == fill_idx = BUFFER_SIZE

\* How one pass of the loop ends after Ok(read_count): with the error
\* InvalidData, with Ok(builder.finish()), or with another pass.
LoopExit(fill_idx, read_count) ==
    IF BufferFull(fill_idx) THEN "InvalidData"
    ELSE IF read_count = 0 THEN (IF fill_idx > 0 THEN "InvalidData" ELSE "Ok")
    ELSE "loop"

\* A call of from_reader before its first read.
ReaderStart ==
    [state |-> "loop", stream |-> <<>>, eof |-> FALSE, buffer |-> ZeroBuffer,
     fill_idx |-> 0, builder |-> <<>>, fed |-> <<>>, appended |-> <<>>,
     slice_len |-> BUFFER_SIZE, read_count |-> None, reads |-> 0,
     cut |-> FALSE, reader_err |-> "none", err |-> "none"]

\* One pass of the loop of from_reader in which the reader returned Ok(Len(data))
\* and wrote data. builder is the text appended to the builder so far; stream,
\* eof, fed (all bytes appended), appended (the bytes of the last append),
\* slice_len, read_count, reads and cut (a pass left bytes for the next one)
\* record what happened.
ReadOk(st, data) ==
    Bind(st.fill_idx + Len(data),
    LAMBDA filled : Bind(ReadInto(st.buffer, st.fill_idx, data),
    LAMBDA buf : Bind(valid_count(buf, filled),
    LAMBDA valid : Bind(LoopExit(filled - valid, Len(data)),
    LAMBDA exit :
        [state |-> IF exit = "loop" THEN "loop" ELSE IF exit = "Ok" THEN "ok" ELSE "err",
         stream |-> st.stream \o data,
         eof |-> Len(data) = 0,
         buffer |-> ShiftBuffer(buf, valid, filled),
         fill_idx |-> filled - valid,
         builder |-> IF valid > 0
                     THEN st.builder \o from_utf8_unchecked(SubSeq(buf, 1, valid), 0)
                     ELSE st.builder,
         fed |-> st.fed \o SubSeq(buf, 1, valid),
         appended |-> SubSeq(buf, 1, valid),
         slice_len |-> BUFFER_SIZE - st.fill_idx,
         read_count |-> Len(data),
         reads |-> st.reads + 1,
         cut |-> st.cut \/ (exit = "loop" /\ filled > valid),
         reader_err |-> "none",
         err |-> IF exit = "InvalidData" THEN "InvalidData" ELSE "none"]))))

\* The pass in which the reader returned Err(e): return Err(e).
ReadErr(st, e) ==
    [st EXCEPT !.state = "err", !.slice_len = BUFFER_SIZE - st.fill_idx,
               !.read_count = None, !.reads = st.reads + 1, !.appended = <<>>,
               !.reader_err = e, !.err = e]

\* The number of bytes a reader delivers at most.
MaxStream == 6

\* The errors a reader may return.
ReaderErrors == {"TimedOut", "InvalidData"}

\* let rope = Rope::from_reader(&mut reader) is called.
InitReader ==
    /\ heap = EmptyMachine.heap
    /\ rope = EmptyMachine.rope
    /\ last = NoOp
    /\ prev = NoOp
    /\ ops = 0
    /\ pc = "run"
    /\ rd = ReaderStart

\* from_reader returns: Ok(builder.finish()) becomes rope r.
ReaderPass(st) ==
    /\ rd' = st
    /\ IF st.state = "ok"
       THEN \E c \in {Canon(ArcNew(EmptyMachine, "r", BuilderFinish(st.builder)))} :
                heap' = c.heap /\ rope' = c.rope
       ELSE UNCHANGED <<heap, rope>>
    /\ UNCHANGED <<last, prev, ops, pc>>

\* A pass of the loop in which the reader delivers the bytes data: at least
\* one, at most as many as the slice it was given holds.
Read(data) ==
    /\ rd.state = "loop"
    /\ Len(data) <= BUFFER_SIZE - rd.fill_idx
    /\ Len(rd.stream) + Len(data) <= MaxStream
    /\ ReaderPass(ReadOk(rd, data))

\* A pass in which the reader returns Ok(0): the stream has ended.
ReadEof ==
    /\ rd.state = "loop"
    /\ ReaderPass(ReadOk(rd, <<>>))

\* A pass in which the reader returns an error.
ReadError(e) ==
    /\ rd.state = "loop"
    /\ ReaderPass(ReadErr(rd, e))

NextReader ==
    \/ \E n \in 1..BUFFER_SIZE : \E data \in [1..n -> StreamBytes] : Read(data)
    \/ ReadEof
    \/ \E e \in ReaderErrors : ReadError(e)

SpecReader == InitReader /\ [][NextReader]_vars

\* The bytes the reader has delivered are valid UTF-8 / their text.
StreamValid == from_utf8_Ok(rd.stream)
StreamText == from_utf8_unchecked(rd.stream, 0)

\* C11: however the reader cuts the stream, from_reader returns Ok with the
\* text of the stream when the stream is valid UTF-8 and InvalidData when it
\* holds an invalid byte sequence or ends inside a code point; the builder is
\* handed valid bytes only, in order and with none skipped; an error of the
\* reader is returned as it is.
C11_FromReaderResult ==
    rd.state # "idle" =>
        /\ rd.fed \o SubSeq(rd.buffer, 1, rd.fill_idx) = rd.stream
        /\ from_utf8_Ok(rd.appended)
        /\ rd.builder = from_utf8_unchecked(rd.fed, 0)
        /\ rd.state = "ok" => /\ rd.eof /\ StreamValid
                              /\ to_string(M, "r") = StreamText
                              /\ len_bytes(M, "r") = Len(rd.stream)
        /\ rd.eof => /\ rd.state # "loop"
                     /\ StreamValid <=> rd.state = "ok"
        /\ (rd.state = "err" /\ rd.reader_err = "none") =>
               rd.err = "InvalidData" /\ ~StreamValid
        /\ rd.reader_err # "none" => rd.state = "err" /\ rd.err = rd.reader_err

\* from_reader returned Ok for a stream with a two-byte char that a read cut
\* in two, after more than one append.
C11_Witness ==
    /\ rd.state = "ok"
    /\ rd.cut
    /\ rd.reads >= 4
    /\ \E i \in 1..Len(StreamText) : StreamText[i] = "w"
    /\ Len(StreamText) >= 3
    /\ to_string(M, "r") = StreamText

\* C14: from_reader returns in the pass in which the reader returns Ok(0) or an
\* error; it returns InvalidData as soon as the buffer holds BUFFER_SIZE bytes
\* that could not be consumed, so that at most BUFFER_SIZE bytes are read from
\* the start of an invalid byte sequence on; fill_idx never exceeds BUFFER_SIZE
\* and no read is issued with an empty slice.
C14_BoundedResponse ==
    rd.state # "idle" =>
        /\ (rd.eof \/ rd.reader_err # "none") => rd.state # "loop"
        /\ rd.fill_idx <= BUFFER_SIZE
        /\ rd.fill_idx = BUFFER_SIZE =>
               rd.state = "err" /\ rd.err = "InvalidData" /\ rd.reader_err = "none"
        /\ Len(rd.stream) - valid_up_to(rd.stream, 0) <= BUFFER_SIZE
        /\ rd.reads > 0 => rd.slice_len >= 1

\* After some valid text a reader that has not reached EOF delivered an
\* invalid byte and went on: from_reader returned InvalidData when the buffer
\* was full.
C14_Witness ==
    /\ rd.state = "err" /\ rd.err = "InvalidData" /\ rd.reader_err = "none"
    /\ ~rd.eof
    /\ rd.fill_idx = BUFFER_SIZE
    /\ valid_up_to(rd.stream, 0) >= 1
    /\ rd.stream[valid_up_to(rd.stream, 0) + 1] = "X"
    /\ rd.reads >= 3

\* ---------------------------------------------------------------- indices out of bounds
\* How far past the end of a rope an index argument may lie.
MaxOver == 2

\* The index i lies past the end of a rope of len chars.
PastEnd(i, len) == len < i /\ i <= len + MaxOver

\* r.insert(char_idx, text) with char_idx > len_chars: the assert! at the head
\* of insert fails, before the root is touched.
InsertOutOfBounds(s, char_idx, text) ==
    /\ Running
    /\ s \in Live(M)
    /\ PastEnd(char_idx, len_chars(M, s))
    /\ pc' = "panic"
    /\ last' = Record("insert", [NoArgs EXCEPT !.s = s, !.c = char_idx, !.text = text])
    /\ prev' = last
    /\ UNCHANGED <<heap, rope, ops, rd>>

\* r.remove(start, end) with end > len_chars: remove checks nothing and calls
\* Node::remove, whose index conversions saturate.
RemoveOutOfBounds(s, start, end) ==
    /\ Running
    /\ s \in Live(M)
    /\ start <= end /\ PastEnd(end, len_chars(M, s))
    /\ Done(RopeRemove(M, s, start, end), "remove",
            [NoArgs EXCEPT !.s = s, !.c = start, !.e = end])

\* Node::split cannot descend into an internal node that has no child.
SplitPanics(m, s) == ~is_leaf(Root(m, s)) /\ child_count(Root(m, s)) = 0

\* let out = r.split_off(char_idx) with char_idx > len_chars: neither special
\* case applies, and Node::split saturates.
SplitOffOutOfBounds(s, char_idx) ==
    /\ Running
    /\ s \in Live(M)
    /\ Live(M) # UserSlots
    /\ PastEnd(char_idx, len_chars(M, s))
    /\ IF SplitPanics(M, s)
       THEN /\ pc' = "panic"
            /\ last' = Record("split_off", [NoArgs EXCEPT !.s = s, !.c = char_idx])
            /\ prev' = last
            /\ UNCHANGED <<heap, rope, ops, rd>>
       ELSE Done(RopeSplitOff(M, s, char_idx, FreeSlot), "split_off",
                 [NoArgs EXCEPT !.s = s, !.c = char_idx, !.out = FreeSlot])

\* The operations, with index arguments inside and outside their bounds.
NextBounds ==
    \/ Next
    \/ \E s \in UserSlots, c \in 0..(MaxLen + MaxOver), t \in InsTexts :
           InsertOutOfBounds(s, c, t)
    \/ \E s \in UserSlots, a \in 0..(MaxLen + MaxOver), b \in 0..(MaxLen + MaxOver) :
           RemoveOutOfBounds(s, a, b)
    \/ \E s \in UserSlots, c \in 0..(MaxLen + MaxOver) : SplitOffOutOfBounds(s, c)

SpecBounds == Init /\ [][NextBounds]_vars

\* The last operation was called with an index argument out of bounds.
OutOfBounds ==
    \/ last.op \in {"insert", "split_off"} /\ last.c > Len(TextBefore(last.s))
    \/ last.op = "remove" /\ (last.c > last.e \/ last.e > Len(TextBefore(last.s)))

\* C12: an insert, remove or split_off whose index argument is out of bounds
\* fails, and at that moment the tree of the rope is the one before the call.
C12_BoundsChecked ==
    OutOfBounds => pc = "panic" /\ Trees(M)[last.s] = last.pre[last.s]

\* C13: a rope without chars is a single empty leaf, and insert(0, s) into it
\* returns and yields the text s.
C13_EmptyIsLeaf ==
    /\ \A s \in Live(M) : len_chars(M, s) = 0 => Root(M, s) = NodeNew
    /\ (last.op = "insert" /\ last.c = 0 /\ TextBefore(last.s) = <<>>) =>
           pc = "run" /\ TextNow(last.s) = last.text
====
